---- MODULE Spec2Model ----
\* The upload endpoint (app/main.py) and the four LangGraph nodes
\* (app/langgraph_nodes.py) of the report pipeline, as one state machine:
\* upload_file -> get_data_profile -> generate_insights -> suggest_plots ->
\* make_plots -> collection of the generated PDFs.
EXTENDS Integers, Sequences, FiniteSets, TLC

\* ---------------------------------------------------------------- bounds
\* Worksheets of an uploaded workbook.
MaxSheets == 2
\* Chart entries of one planner response.
MaxCharts == 2

\* A key that a SheetState dict does not hold (yet): one marker for each
\* kind of value, a text, a parsed literal, a path.
Unset == "<unset>"
UnsetVisuals == [type |-> "unset"]
UnsetPath == <<>>
\* No planner completion received.
NoText == <<"<none>">>

\* ------------------------------------------------------------------ text
\* Text is a sequence of characters. Inside a mapping literal one element
\* stands for one lexeme: a brace, a bracket, or a whole key-value item.
NL == "\n"
Whitespace == {" ", NL}
\* One element per character; Backtick stands for the backquote character.
Backtick == "backtick"
Fence == <<Backtick, Backtick, Backtick>>
JsonFence == Fence \o <<"j", "s", "o", "n">>

\* Items of a mapping literal, named by the value they give to the chart id:
\*   G  an object with the fields plot and description
\*   E  an object with neither field
\*   S  a string, not an object
ItemLexemes == {"G", "E", "S"}

StartsWith(s, p) == Len(s) >= Len(p) /\ SubSeq(s, 1, Len(p)) = p

EndsWith(s, p) == Len(s) >= Len(p) /\ SubSeq(s, Len(s) - Len(p) + 1, Len(s)) = p

RECURSIVE LStrip(_)
LStrip(s) == IF s # <<>> /\ Head(s) \in Whitespace THEN LStrip(Tail(s)) ELSE s

RECURSIVE RStrip(_)
RStrip(s) ==
    IF s # <<>> /\ s[Len(s)] \in Whitespace
    THEN RStrip(SubSeq(s, 1, Len(s) - 1))
    ELSE s

\* str.strip()
Strip(s) == RStrip(LStrip(s))

\* Remove Markdown code block markers: the two ifs of suggest_plots.
StripFences(raw) ==
    LET a == IF StartsWith(raw, JsonFence)
             THEN Strip(SubSeq(raw, Len(JsonFence) + 1, Len(raw)))
             ELSE raw
    IN  IF EndsWith(a, Fence) THEN Strip(SubSeq(a, 1, Len(a) - Len(Fence))) ELSE a

\* ast.literal_eval raised (SyntaxError / ValueError).
ParseError == [type |-> "error"]

\* The dict a mapping literal denotes: chart ids in the order written.
DictOf(items) ==
    [type |-> "dict",
     items |-> [k \in 1..Len(items) |-> [id |-> k, kind |-> items[k]]]]

\* ast.literal_eval on the text: any Python literal is accepted, a dict of
\* whatever values as well as a list; surrounding blanks are tolerated.
literal_eval(text) ==
    LET t == Strip(text)
    IN  IF t = <<"[", "]">> THEN [type |-> "list"]
        ELSE IF /\ Len(t) >= 2
                /\ t[1] = "{"
                /\ t[Len(t)] = "}"
                /\ \A k \in 2..(Len(t) - 1) : t[k] \in ItemLexemes
        THEN DictOf(SubSeq(t, 2, Len(t) - 1))
        ELSE ParseError

\* ---------------------------------------------------------------- inputs
\* Uploaded file names, as <<stem, suffix>>.
FileNames == {<<"data", ".csv">>, <<"book", ".xlsx">>, <<"notes", ".txt">>}

\* Worksheet names, in workbook order; a CSV is the single sheet Sheet1.
SheetNames == <<"Sheet1", "Sheet2", "Sheet3", "Sheet4">>

\* What ingestion can return: the sheet names, in the order of the dict.
Workbooks(fname) ==
    IF fname[2] = ".csv"
    THEN {<<"Sheet1">>}
    ELSE {SubSeq(SheetNames, 1, n) : n \in 1..MaxSheets}

\* message.content of the insight completion: some text, or nothing.
InsightReplies == {"insights", ""}

\* Mapping literals the planner may send: k well-formed items, or one of a
\* few literals of another shape.
RECURSIVE Repeat(_, _)
Repeat(x, n) == IF n = 0 THEN <<>> ELSE <<x>> \o Repeat(x, n - 1)

\* The maps the planner is asked for: the empty one and the one of MaxCharts
\* charts, whose chart loop passes through what a shorter map's loop does.
ValidLiterals == {<<"{">> \o Repeat("G", k) \o <<"}">> : k \in {0, MaxCharts}}

OtherLiterals ==
    {<<"[", "]">>, <<"{", "G", "S", "}">>, <<"{", "E", "}">>}

\* Text no literal: a truncated mapping, an empty completion.
BrokenTexts == {<<"{", "G">>, <<>>}

\* How a completion may wrap the literal L.
Wrappings == {"bare", "json", "json_nl", "untagged"}

Wrap(w, L) ==
    CASE w = "bare" -> L
      [] w = "json" -> JsonFence \o <<NL>> \o L \o <<NL>> \o Fence
      [] w = "json_nl" -> JsonFence \o <<NL>> \o L \o <<NL>> \o Fence \o <<NL>>
      [] w = "untagged" -> Fence \o <<NL>> \o L \o <<NL>> \o Fence

PlannerReplies ==
    {Wrap(w, L) : w \in Wrappings, L \in ValidLiterals \cup OtherLiterals} \cup BrokenTexts

\* Chart code, one element per statement: figure is plt.figure(), show is
\* plt.show(), raise is a statement that raises, inplace changes df in place,
\* import is an import statement, np is a use of the name np.
ChartCodes ==
    {<<"figure", "show">>, <<"figure", "inplace", "figure">>,
     <<"figure", "raise">>, <<"np">>, <<"import">>}

\* ----------------------------------------------------------------- state
VARIABLES
    pc,             \* where the request is
    filename,       \* file.filename of the upload
    uploads,        \* files stored under UPLOAD_DIR
    src,            \* get_data_profile: the local dict sheets (names in order)
    sheet_states,   \* get_data_profile: the local list sheet_states
    heap,           \* the SheetState dicts, by reference
    stateSheets,    \* state["sheets"]: a list of references
    iterList,       \* the list object a stage's for loop iterates over
    updated_sheets, \* a stage's local list updated_sheets
    i,              \* position of the sheet loop
    j,              \* position of the chart loop of make_plots
    completion,     \* the planner completion last received (message.content)
    images,         \* make_plots: images_with_descriptions
    attempts,       \* what exec and the capture did for each chart of the sheet
    figs,           \* pyplot's figure registry, by ascending figure number
    canvas,         \* make_plots: the pages drawn on the canvas c
    files,          \* REPORT_DIR: the base names of the PDFs saved
    err,            \* the exception that ended the workflow, if any
    response        \* the JSON response of upload_file

vars ==
    <<pc, filename, uploads, src, sheet_states, heap, stateSheets, iterList,
      updated_sheets, i, j, completion, images, attempts, figs, canvas, files, err,
      response>>

\* A response is its status code and the keys of its JSON body.
NoResponse == [status |-> 0, body |-> <<>>]

Init ==
    /\ pc = "idle"
    /\ filename = <<>>
    /\ uploads = {}
    /\ src = <<>>
    /\ sheet_states = <<>>
    /\ heap = <<>>
    /\ stateSheets = <<>>
    /\ iterList = <<>>
    /\ updated_sheets = <<>>
    /\ i = 1
    /\ j = 1
    /\ completion = NoText
    /\ images = <<>>
    /\ attempts = <<>>
    /\ figs = <<>>
    /\ canvas = <<>>
    /\ files = {}
    /\ err = "none"
    /\ response = NoResponse

\* ------------------------------------------------------------ upload_file
\* Variant: the validation lets every file name through.
AnySuffix == {".csv", ".xlsx", ".xls", ".txt"}

\* file.filename.endswith((".csv", ".xlsx", ".xls"))
AllowedSuffixes == {".csv", ".xlsx", ".xls"}

\* The locals of a node are gone once it returned or an exception left it.
LocalsGone ==
    /\ sheet_states' = <<>>
    /\ iterList' = <<>>
    /\ updated_sheets' = <<>>
    /\ i' = 1
    /\ j' = 1
    /\ images' = <<>>
    /\ attempts' = <<>>
    /\ canvas' = <<>>

\* The state dict of the run and the SheetState dicts it holds are
\* unreachable once upload_file has its answer.
StateGone ==
    /\ heap' = <<>>
    /\ stateSheets' = <<>>

\* Variant: the except branch answers like a finished run, without reports.
WorkflowFailedAsSuccess(cause) ==
    /\ pc' = "done"
    /\ err' = cause
    /\ response' = [status |-> 200, body |-> [success |-> TRUE, pdfs |-> <<>>]]
    /\ LocalsGone
    /\ StateGone

\* The try/except around workflow.invoke: any exception of a node becomes
\* the single 500 response, and nothing of the state is returned.
WorkflowFailed(cause) ==
    /\ pc' = "done"
    /\ err' = cause
    /\ response' = [status |-> 500, body |-> [success |-> FALSE, error |-> cause]]
    /\ LocalsGone
    /\ StateGone

\* Validation and storing of the upload.
Upload ==
    /\ pc = "idle"
    /\ \E f \in FileNames, stored \in BOOLEAN :
        /\ filename' = f
        /\ IF f[2] \notin AllowedSuffixes
           THEN /\ pc' = "done"
                /\ response' = [status |-> 400, body |-> [error |-> "Invalid file type"]]
                /\ UNCHANGED uploads
           ELSE IF ~stored
           THEN /\ pc' = "done"
                /\ response' = [status |-> 500, body |-> [error |-> "File upload failed"]]
                /\ UNCHANGED uploads
           ELSE /\ pc' = "ingest"
                /\ uploads' = uploads \cup {f}
                /\ UNCHANGED response
    /\ UNCHANGED <<src, sheet_states, heap, stateSheets, iterList, updated_sheets,
                   i, j, completion, images, attempts, figs, canvas, files, err>>

\* ------------------------------------------------------- get_data_profile
\* pd.read_csv / parse_excel: the sheets of the file, or an exception.
Ingest ==
    /\ pc = "ingest"
    /\ \/ /\ WorkflowFailed("ingestion")
          /\ UNCHANGED src
       \/ \E wb \in Workbooks(filename) :
            /\ src' = wb
            /\ pc' = "profile"
            /\ UNCHANGED <<sheet_states, iterList, updated_sheets, i, j, images,
                           attempts, canvas, err, response, heap, stateSheets>>
    /\ UNCHANGED <<filename, uploads, completion, figs, files>>

\* The dataset object of a sheet as ingestion built it.
Dataset(name) == [sheet |-> name, content |-> "as_ingested"]

basic_summary(df) == [summary_of |-> df.sheet]

profile_to_json(df) == [profile_of |-> df.sheet]

\* The dict appended for one sheet: four keys, the others absent.
NewSheetState(name) ==
    [sheet_name |-> name,
     summary |-> basic_summary(Dataset(name)),
     profile |-> profile_to_json(Dataset(name)),
     df |-> Dataset(name),
     insights |-> Unset,
     visuals |-> UnsetVisuals,
     pdf_path |-> UnsetPath]

\* One iteration of the loop over sheets.items().
ProfileSheet ==
    /\ pc = "profile"
    /\ i <= Len(src)
    /\ heap' = Append(heap, NewSheetState(src[i]))
    /\ sheet_states' = Append(sheet_states, Len(heap) + 1)
    /\ i' = i + 1
    /\ UNCHANGED <<pc, filename, uploads, src, stateSheets, iterList, updated_sheets,
                   j, completion, images, attempts, figs, canvas, files, err, response>>

\* state['sheets'] = sheet_states; return state. The next node starts its
\* loop over the list that state["sheets"] then holds.
ProfileReturn ==
    /\ pc = "profile"
    /\ i > Len(src)
    /\ stateSheets' = sheet_states
    /\ sheet_states' = <<>>
    /\ iterList' = stateSheets'
    /\ i' = 1
    /\ pc' = "insights"
    /\ UNCHANGED <<filename, uploads, src, heap, updated_sheets, j, completion, images,
                   attempts, figs, canvas, files, err, response>>

\* ------------------------------------------------------ generate_insights
\* Variant: the for loop reads state["sheets"] anew in each iteration, and
\* so the list the loop body has rebound.
LoopDoneOverState == i > Len(stateSheets)

\* Variant: return state inside the loop body, after the first sheet.
LoopDoneAfterFirst == i > 1 \/ i > Len(iterList)

\* A stage's for loop has run over every element of the list it iterates.
LoopDone == i > Len(iterList)

\* sheet['insights'] = response.choices[0].message.content
WithInsights(sheet, content) == [sheet EXCEPT !.insights = content]

\* One iteration: the completion call, then the assignment,
\* updated_sheets.append(sheet), state["sheets"] = updated_sheets.
InsightSheet ==
    /\ pc = "insights"
    /\ ~LoopDone
    /\ \/ WorkflowFailed("generation")
       \/ \E content \in InsightReplies :
            /\ heap' = [heap EXCEPT ![iterList[i]] = WithInsights(@, content)]
            /\ updated_sheets' = Append(updated_sheets, iterList[i])
            /\ stateSheets' = updated_sheets'
            /\ i' = i + 1
            /\ UNCHANGED <<pc, err, response, sheet_states, iterList, j, images,
                           attempts, canvas>>
    /\ UNCHANGED <<filename, uploads, src, completion, figs, files>>

\* return state: the edge to get_visualization_code.
InsightReturn ==
    /\ pc = "insights"
    /\ LoopDone
    /\ pc' = "planning"
    /\ iterList' = stateSheets
    /\ updated_sheets' = <<>>
    /\ i' = 1
    /\ UNCHANGED <<filename, uploads, src, sheet_states, heap, stateSheets, j,
                   completion, images, attempts, figs, canvas, files, err, response>>

\* ---------------------------------------------------------- suggest_plots
\* One iteration: the completion call, the fence stripping, the parse,
\* then sheet['visuals'] = value and the two list statements.
PlanSheet ==
    /\ pc = "planning"
    /\ ~LoopDone
    /\ \/ /\ WorkflowFailed("generation")
          /\ completion' = NoText
       \/ \E reply \in PlannerReplies :
            /\ completion' = reply
            /\ LET value == literal_eval(StripFences(reply))
               IN  IF value = ParseError
                   THEN WorkflowFailed("parse")
                   ELSE /\ heap' = [heap EXCEPT ![iterList[i]].visuals = value]
                        /\ updated_sheets' = Append(updated_sheets, iterList[i])
                        /\ stateSheets' = updated_sheets'
                        /\ i' = i + 1
                        /\ UNCHANGED <<pc, err, response, sheet_states, iterList, j,
                                       images, attempts, canvas>>
    /\ UNCHANGED <<filename, uploads, src, figs, files>>

\* return state: the edge to get_pdf_report.
PlanReturn ==
    /\ pc = "planning"
    /\ LoopDone
    /\ pc' = "render"
    /\ iterList' = stateSheets
    /\ updated_sheets' = <<>>
    /\ i' = 1
    /\ completion' = NoText
    /\ UNCHANGED <<filename, uploads, src, sheet_states, heap, stateSheets, j,
                   images, attempts, figs, canvas, files, err, response>>

\* ------------------------------------------------------------- make_plots
\* chart.get("plot", ""): the code an item can hold; no plot key, no code.
CodesOf(item) == IF item.kind = "E" THEN {<<>>} ELSE ChartCodes

\* chart.get("description", ""): the caption, told apart by the chart id.
DescriptionOf(item) == IF item.kind = "E" THEN <<>> ELSE <<"description", item.id>>

\* .replace("plt.show()", "")
StripShow(code) == SelectSeq(code, LAMBDA op : op # "show")

\* exec(plot_code, {}, local_scope): the statements run in order until one
\* raises, a NameError for a name that does not resolve included; names is
\* the set of names the code resolved. plt.figure() registers a new figure under the highest number;
\* df is the sheet's own DataFrame object, so a change in place is a change
\* of sheet["df"].
\* The names of local_scope, the locals of exec.
local_scope == {"df", "plt", "pd"}

\* The globals of exec are the dict {}: exec puts __builtins__ into a
\* globals dict that lacks it, so the names of the builtins module resolve.
Builtins == {"__import__", "open"}

Resolves(name) == name \in local_scope \/ name \in Builtins

\* The name a statement looks up; an import statement calls __import__.
NameOf(op) ==
    CASE op = "figure" -> "plt"
      [] op = "show" -> "plt"
      [] op = "inplace" -> "df"
      [] op = "import" -> "__import__"
      [] op = "np" -> "np"
      [] OTHER -> "<none>"

RECURSIVE Exec(_, _, _)
Exec(code, owner, st) ==
    IF code = <<>> THEN st
    ELSE LET op == Head(code)
             name == NameOf(op)
             seen == IF name = "<none>" THEN st
                     ELSE [st EXCEPT !.names = @ \cup {name}]
         IN  CASE op = "raise" -> [st EXCEPT !.raised = TRUE]
               [] name # "<none>" /\ ~Resolves(name) -> [st EXCEPT !.raised = TRUE]
               [] op = "figure" ->
                    Exec(Tail(code), owner,
                         [seen EXCEPT !.figs = Append(@, owner),
                                      !.created = @ + 1])
               [] op = "inplace" ->
                    Exec(Tail(code), owner, [seen EXCEPT !.df.content = "modified"])
               [] OTHER -> Exec(Tail(code), owner, seen)

\* Variant: no continue in the except branch, the capture runs all the same.
AfterExecNoContinue(r, description, imgs) ==
    IF r.figs # <<>>
    THEN [figs |-> SubSeq(r.figs, 1, Len(r.figs) - 1),
          images |-> Append(imgs, [img |-> r.figs[Len(r.figs)],
                                   description |-> description])]
    ELSE [figs |-> r.figs, images |-> imgs]

\* The statements after exec of one chart: on an exception, continue; else
\* figs[-1] of the registry is saved with the description and closed; with
\* an empty registry nothing is captured. Gives the new registry and list.
AfterExec(r, description, imgs) ==
    IF r.raised
    THEN [figs |-> r.figs, images |-> imgs]
    ELSE IF r.figs # <<>>
    THEN [figs |-> SubSeq(r.figs, 1, Len(r.figs) - 1),
          images |-> Append(imgs, [img |-> r.figs[Len(r.figs)],
                                   description |-> description])]
    ELSE [figs |-> r.figs, images |-> imgs]

\* The head of the sheet loop: df = sheet["df"], the empty image list, and
\* sheet["visuals"].items(), which only a dict has.
BeginSheet ==
    /\ pc = "render"
    /\ ~LoopDone
    /\ IF heap[iterList[i]].visuals.type = "dict"
       THEN /\ pc' = "charts"
            /\ images' = <<>>
            /\ attempts' = <<>>
            /\ canvas' = <<>>
            /\ j' = 1
            /\ UNCHANGED <<err, response, sheet_states, iterList, updated_sheets, i,
                           heap, stateSheets>>
       ELSE WorkflowFailed("attribute")
    /\ UNCHANGED <<filename, uploads, src, completion, figs, files>>

\* The items of the current sheet's visuals.
Charts == heap[iterList[i]].visuals.items

\* One iteration of the chart loop.
RenderChart ==
    /\ pc = "charts"
    /\ j <= Len(Charts)
    /\ LET item == Charts[j]
           sheet == heap[iterList[i]]
       IN  IF item.kind = "S"
           THEN /\ WorkflowFailed("attribute")
                /\ UNCHANGED figs
           ELSE \E code \in CodesOf(item) :
                  LET owner == [sheet |-> sheet.sheet_name, chart |-> item.id]
                      r == Exec(StripShow(code), owner,
                                [figs |-> figs, df |-> sheet.df,
                                 raised |-> FALSE, created |-> 0, names |-> {}])
                      after == AfterExec(r, DescriptionOf(item), images)
                  IN  /\ heap' = [heap EXCEPT ![iterList[i]].df = r.df]
                      /\ figs' = after.figs
                      /\ images' = after.images
                      /\ attempts' = Append(attempts,
                                            [chart |-> item.id, raised |-> r.raised,
                                             created |-> r.created, names |-> r.names,
                                             captured |-> Len(after.images) > Len(images)])
                      /\ j' = j + 1
                      /\ UNCHANGED <<pc, err, response, sheet_states, iterList,
                                     updated_sheets, i, canvas, stateSheets>>
    /\ UNCHANGED <<filename, uploads, src, completion, files>>

\* os.path.join(REPORT_DIR, sheet_name + ".pdf") and os.path.basename of it.
PdfFilename(name) == <<"generated_reports", <<name, ".pdf">>>>

basename(path) == path[Len(path)]

\* Variant: the pages are drawn from the last image to the first.
PagesReversed(imgs) ==
    [k \in 1..Len(imgs) |-> [image |-> imgs[Len(imgs) + 1 - k].img,
                             text |-> imgs[Len(imgs) + 1 - k].description]]

\* The loop over images_with_descriptions: drawImage, drawString, showPage.
Pages(imgs) ==
    [k \in 1..Len(imgs) |-> [image |-> imgs[k].img, text |-> imgs[k].description]]

\* Variant: a sheet without a captured image gets no document and no
\* pdf_path.
AssembleSkipsEmpty ==
    /\ pc = "charts"
    /\ j > Len(Charts)
    /\ LET sheet == heap[iterList[i]]
           pdf_filename == PdfFilename(sheet.sheet_name)
       IN  /\ canvas' = Pages(images)
           /\ files' = IF images = <<>> THEN files
                       ELSE files \cup {basename(pdf_filename)}
           /\ heap' = IF images = <<>> THEN heap
                      ELSE [heap EXCEPT ![iterList[i]].pdf_path = basename(pdf_filename)]
           /\ updated_sheets' = Append(updated_sheets, iterList[i])
           /\ stateSheets' = updated_sheets'
           /\ i' = i + 1
           /\ pc' = "render"
    /\ UNCHANGED <<err, response, sheet_states, iterList, j, images, attempts>>
    /\ UNCHANGED <<filename, uploads, src, completion, figs>>

\* The canvas, one page per captured image, c.save(); then pdf_path and the
\* two list statements. A save that cannot write raises out of the node.
Assemble ==
    /\ pc = "charts"
    /\ j > Len(Charts)
    /\ \E written \in BOOLEAN :
        LET sheet == heap[iterList[i]]
            pdf_filename == PdfFilename(sheet.sheet_name)
        IN  IF ~written
            THEN /\ WorkflowFailed("write")
                 /\ UNCHANGED files
            ELSE /\ canvas' = Pages(images)
                 /\ files' = files \cup {basename(pdf_filename)}
                 /\ heap' = [heap EXCEPT ![iterList[i]].pdf_path = basename(pdf_filename)]
                 /\ updated_sheets' = Append(updated_sheets, iterList[i])
                 /\ stateSheets' = updated_sheets'
                 /\ i' = i + 1
                 /\ pc' = "render"
                 /\ UNCHANGED <<err, response, sheet_states, iterList, j, images,
                                attempts>>
    /\ UNCHANGED <<filename, uploads, src, completion, figs>>

\* return state: the edge to END, back in upload_file.
RenderReturn ==
    /\ pc = "render"
    /\ LoopDone
    /\ pc' = "collect"
    /\ LocalsGone
    /\ UNCHANGED <<filename, uploads, src, heap, stateSheets, completion, figs, files,
                   err, response>>

\* ------------------------------------------------- upload_file, the result
\* Variant: the loop stops at the first report it finds.
CollectPdfsFirstOnly(sheets) ==
    LET names == [k \in 1..Len(sheets) |-> heap[sheets[k]].pdf_path]
        found == SelectSeq(names, LAMBDA n : n # UnsetPath /\ n \in files)
    IN  IF found = <<>> THEN found ELSE <<found[1]>>

\* The loop over final_state["sheets"]: the pdf_path of every sheet that has
\* one whose file exists under REPORT_DIR.
CollectPdfs(sheets) ==
    LET names == [k \in 1..Len(sheets) |-> heap[sheets[k]].pdf_path]
    IN  SelectSeq(names, LAMBDA n : n # UnsetPath /\ n \in files)

Collect ==
    /\ pc = "collect"
    /\ pc' = "done"
    /\ response' = [status |-> 200,
                    body |-> [success |-> TRUE, pdfs |-> CollectPdfs(stateSheets)]]
    /\ StateGone
    /\ UNCHANGED <<filename, uploads, src, sheet_states, iterList, updated_sheets,
                   i, j, completion, images, attempts, figs, canvas, files, err>>

Next ==
    \/ Upload
    \/ Ingest
    \/ ProfileSheet
    \/ ProfileReturn
    \/ InsightSheet
    \/ InsightReturn
    \/ PlanSheet
    \/ PlanReturn
    \/ BeginSheet
    \/ RenderChart
    \/ Assemble
    \/ RenderReturn
    \/ Collect

Spec == Init /\ [][Next]_vars

\* ---------------------------------------------------------------- claims
\* The keys of the JSON body of the response.
Keys == DOMAIN response.body

\* The answer of a finished run: the list of reports.
Succeeded200 == "pdfs" \in Keys /\ response.body.success

\* The markers of the keys a SheetState may lack.
Missing == [insights |-> Unset, visuals |-> UnsetVisuals, pdf_path |-> UnsetPath]

IsSet(r, f) == f \notin DOMAIN Missing \/ heap[r][f] # Missing[f]

\* The sheet whose document make_plots has just saved: its loop body ended
\* and the next iteration has not begun.
JustAssembled == pc = "render" /\ i > 1

LastSheet == heap[iterList[i - 1]]

HasPage(description) == \E k \in 1..Len(canvas) : canvas[k].text = description

Captured(a) == ~a.raised /\ a.created > 0

\* C1: a chart whose code raises does not stop the sheet: every chart of
\* the sheet was executed, each chart that ran without error and created a
\* figure has a page in the document, a chart that raised has none, and the
\* sheet has its pdf_path and its file.
C1_RendererIsolation ==
    JustAssembled =>
        LET items == LastSheet.visuals.items
        IN  /\ Len(attempts) = Len(items)
            /\ \A k \in 1..Len(items) :
                 /\ attempts[k].chart = items[k].id
                 /\ Captured(attempts[k]) => HasPage(DescriptionOf(items[k]))
                 /\ (attempts[k].raised /\ items[k].kind = "G")
                      => ~HasPage(DescriptionOf(items[k]))
            /\ LastSheet.pdf_path = <<LastSheet.sheet_name, ".pdf">>
            /\ LastSheet.pdf_path \in files

\* C1 witness: a saved sheet with one chart that raised and one that has
\* its page.
C1_Witness ==
    /\ JustAssembled
    /\ \E k \in 1..Len(attempts) : attempts[k].raised
    /\ \E k \in 1..Len(attempts) :
         Captured(attempts[k]) /\ HasPage(<<"description", attempts[k].chart>>)

\* C2: the stages are a barrier sequence: when a sheet can get its insight
\* call every sheet is profiled, when a sheet can get its planner call every
\* sheet has insights, and when a sheet can be rendered every sheet has its
\* chart specs; no field of a later stage is set while a sheet lacks the
\* field of the stage before.
C2_StageBarrier ==
    LET all(f) == \A r \in 1..Len(heap) : IsSet(r, f)
        some(f) == \E r \in 1..Len(heap) : IsSet(r, f)
    IN  /\ pc \in {"insights", "planning", "render", "charts", "collect"}
            => Len(heap) = Len(src)
        /\ pc \in {"planning", "render", "charts", "collect"} => all("insights")
        /\ pc \in {"render", "charts", "collect"} => all("visuals")
        /\ some("insights") => Len(heap) = Len(src)
        /\ some("visuals") => all("insights")
        /\ (some("pdf_path") \/ figs # <<>> \/ files # {}) => all("visuals")

\* C2 witness: in a workbook of several sheets the second sheet gets its
\* planner call.
C2_Witness == pc = "planning" /\ Len(iterList) >= 2 /\ i = 2

\* C3: a finished request answers either with a list of reports or with
\* one error, never both; and a run that failed in ingestion, in a
\* generation call or in the parse of a planner completion has written no
\* report and returns no report list.
C3_RunOutcome ==
    pc = "done" =>
        /\ ("pdfs" \in Keys) # ("error" \in Keys)
        /\ "pdfs" \in Keys => response.body.success /\ err = "none"
        /\ err \in {"ingestion", "generation", "parse"} =>
              /\ files = {}
              /\ "pdfs" \notin Keys
              /\ ~response.body.success

\* C3 witness: a run over several sheets that failed on the parse of a
\* planner completion.
C3_Witness == pc = "done" /\ err = "parse" /\ Len(src) >= 2

\* C4: a document that cannot be saved costs only its own sheet: the run
\* still answers with a list of reports.
C4_WriteFailureConfined == err = "write" => Succeeded200

\* C5: a run that answers with a list has one report per ingested sheet, in
\* the order of the sheets.
C5_ResultCount ==
    (pc = "done" /\ Succeeded200) =>
        /\ Len(response.body.pdfs) = Len(src)
        /\ \A k \in 1..Len(src) : response.body.pdfs[k] = <<src[k], ".pdf">>

\* C5 witness: a list answered for a workbook of several sheets.
C5_Witness == pc = "done" /\ Succeeded200 /\ Len(src) >= 2

\* C6: when the render step of a chart begins, and when a sheet begins, the
\* figure registry is empty.
C6_FigureHygiene ==
    ((pc = "charts" /\ j <= Len(Charts)) \/ (pc = "render" /\ ~LoopDone))
        => figs = <<>>

\* C7: an empty insight completion is a failure of the run: no sheet is
\* planned or rendered while a sheet holds empty insights.
C7_EmptyInsightFatal ==
    pc \in {"planning", "render", "charts", "collect"}
        => \A r \in 1..Len(heap) : heap[r].insights # ""

\* C8: a valid mapping literal inside a fenced block, with the json tag or
\* with no tag, is stored as the literal itself parses, and stripping
\* leaves a bare valid literal as it is.
C8_FenceStripping ==
    /\ \A L \in ValidLiterals : StripFences(L) = L
    /\ \A w \in {"json", "untagged"}, L \in ValidLiterals :
         completion = Wrap(w, L) =>
            /\ pc = "planning"
            /\ i > 1
            /\ heap[iterList[i - 1]].visuals = literal_eval(L)

\* A chartSpecs value: a dict whose every value has plot and description.
WellShaped(v) ==
    /\ v.type = "dict"
    /\ \A k \in 1..Len(v.items) : v.items[k].kind = "G"

\* C9: what the planning stage stores, and so what reaches rendering, is a
\* mapping from chart ids to objects with the fields plot and description.
C9_ShapeChecked ==
    \A r \in 1..Len(heap) :
        IsSet(r, "visuals") => WellShaped(heap[r].visuals)

\* C10: a field of a SheetState, once written, keeps its value in every
\* later step of the run, and each field is written in its own stage only.
C10_AppendOnly ==
    [][\A r \in 1..Len(heap) :
         r <= Len(heap') =>
            /\ \A f \in {"summary", "profile", "df", "insights", "visuals", "pdf_path"} :
                 IsSet(r, f) => heap'[r][f] = heap[r][f]
            /\ heap'[r].insights # heap[r].insights => pc = "insights"
            /\ heap'[r].visuals # heap[r].visuals => pc = "planning"
            /\ heap'[r].pdf_path # heap[r].pdf_path => pc = "charts"]_vars

\* C11: the dataset of a sheet is read-only after ingestion: whatever the
\* code of a chart did with df, the next chart of the sheet, and every later
\* step, sees the dataset as ingestion produced it.
C11_DatasetReadOnly ==
    \A r \in 1..Len(heap) : heap[r].df = Dataset(heap[r].sheet_name)

\* The reports upload_file would list for the sheets of the state.
Listed == {CollectPdfs(stateSheets)[k] : k \in 1..Len(CollectPdfs(stateSheets))}

\* C12: a sheet in which no chart succeeded (no chart at all, every chart
\* raised, or no chart created a figure) still gets its document: when
\* make_plots has finished such a sheet the file is written, pdf_path is set
\* and the sheet is in state.sheets, and when the run returns its report is
\* in the list.
C12_DegradedSheetReport ==
    /\ (JustAssembled /\ \A k \in 1..Len(attempts) : ~Captured(attempts[k])) =>
          /\ LastSheet.pdf_path = <<LastSheet.sheet_name, ".pdf">>
          /\ LastSheet.pdf_path \in files
          /\ stateSheets[Len(stateSheets)] = iterList[i - 1]
    /\ pc = "collect" =>
          \A k \in 1..Len(stateSheets) :
             LET sheet == heap[stateSheets[k]]
             IN  (\A n \in 1..Len(sheet.visuals.items) :
                     sheet.visuals.items[n].kind = "E")
                 => <<sheet.sheet_name, ".pdf">> \in Listed

\* C12 witness: a saved sheet of two charts or more, none captured, one of
\* which raised and one of which ran without creating a figure.
C12_Witness ==
    /\ JustAssembled
    /\ \A k \in 1..Len(attempts) : ~Captured(attempts[k])
    /\ \E k \in 1..Len(attempts) : attempts[k].raised
    /\ \E k \in 1..Len(attempts) : ~attempts[k].raised /\ attempts[k].created = 0
    /\ LastSheet.pdf_path \in files

\* C13: chart code resolves three names only, the dataset, the plotting
\* namespace and the tabular-data namespace; no other name, the import and
\* file-open facilities of the built-ins included, resolves inside it.
C13_ThreeNamesOnly ==
    \A k \in 1..Len(attempts) : attempts[k].names \subseteq local_scope

\* C14: a chart whose code ran without error and created no figure has no
\* page, whatever the charts before it did, in this sheet or in an earlier
\* one; put the other way, the image of every page was created by the code
\* of the chart whose description the page carries.
C14_PageProvenance ==
    pc = "charts" =>
        /\ \A k \in 1..Len(attempts) :
             (~attempts[k].raised /\ attempts[k].created = 0) =>
                \A n \in 1..Len(images) : images[n].img.chart # attempts[k].chart
                                          /\ images[n].description # DescriptionOf(Charts[k])
        /\ \A n \in 1..Len(images) :
             /\ images[n].img.sheet = heap[iterList[i]].sheet_name
             /\ images[n].description = <<"description", images[n].img.chart>>

\* The descriptions of the charts of the sheet just saved for which the
\* capture stored an image, in the order of the items of its visuals.
CapturedDescriptions ==
    LET items == LastSheet.visuals.items
        idx == SelectSeq([k \in 1..Len(attempts) |-> k],
                         LAMBDA k : attempts[k].captured)
    IN  [n \in 1..Len(idx) |-> DescriptionOf(items[idx[n]])]

\* C15: the document of a sheet has exactly one page per captured chart,
\* and the pages are in the insertion order of the sheet's visuals,
\* restricted to the captured charts.
C15_PagesInOrder ==
    JustAssembled =>
        /\ Len(attempts) = Len(LastSheet.visuals.items)
        /\ [k \in 1..Len(canvas) |-> canvas[k].text] = CapturedDescriptions

\* C15 witness: a saved sheet whose two charts were both captured, with a
\* page each, the first chart's page first.
C15_Witness ==
    /\ JustAssembled
    /\ Len(attempts) = 2
    /\ attempts[1].captured /\ attempts[2].captured
    /\ Len(canvas) = 2
    /\ canvas[1].text = <<"description", 1>>
    /\ canvas[2].text = <<"description", 2>>

\* The sheet names of a list of SheetState references.
NamesOf(refs) == [k \in 1..Len(refs) |-> heap[refs[k]].sheet_name]

\* C16: when generate_insights, suggest_plots or make_plots has returned,
\* state.sheets holds the sheet names ingestion produced, each once and in
\* the same order, although the loop body rebinds state.sheets to the list
\* built so far.
C16_SheetListPreserved ==
    ((pc \in {"planning", "render"} /\ i = 1 /\ updated_sheets = <<>>)
        \/ pc = "collect")
    => NamesOf(stateSheets) = src

\* C16 witness: make_plots has returned for a workbook of several sheets.
C16_Witness == pc = "collect" /\ Len(src) >= 2 /\ Len(stateSheets) >= 2

\* C17: an upload whose name ends in none of .csv, .xlsx and .xls is
\* answered with an error and nothing else happens: no file is stored, the
\* workflow is not invoked, no completion is asked for and no report is
\* written.
C17_InvalidTypeRejected ==
    (filename # <<>> /\ filename[2] \notin {".csv", ".xlsx", ".xls"}) =>
        /\ pc = "done"
        /\ response.status = 400
        /\ Keys = {"error"}
        /\ uploads = {}
        /\ src = <<>> /\ heap = <<>> /\ stateSheets = <<>>
        /\ completion = NoText
        /\ figs = <<>> /\ files = {}
        /\ err = "none"

\* C17 witness: the upload of notes.txt has been answered.
C17_Witness == pc = "done" /\ filename = <<"notes", ".txt">> /\ response.status = 400

====
